---- MODULE Spec2Model ----
(***************************************************************************)
(* Task-Tracker: the FastAPI request handlers of src/app/main.py and       *)
(* src/auth, over the three tables of src/app/models.py (users, tasks,     *)
(* task_assignees) kept in PostgreSQL (src/app/database.py).               *)
(*                                                                         *)
(* Spec       : requests handled one at a time, each handler one action.   *)
(* SpecConc   : requests handled concurrently, one action per database     *)
(*              statement (every await of a handler), each request in its  *)
(*              own session.                                               *)
(* SpecSignup : SpecConc restricted to the signup requests.                *)
(***************************************************************************)
EXTENDS Integers, Sequences, FiniteSets, TLC

VARIABLES
    users,           \* table users: set of rows [id, username, hashed_password, role]
    users_id_seq,    \* next value of the users.id sequence
    tasks,           \* table tasks: rows [id, title, responsible_person_id, status,
                     \*   priority] in the order a scan without ORDER BY returns them
    tasks_id_seq,    \* next value of the tasks.id sequence
    task_assignees,  \* association table: set of rows [task_id, user_id]
    resp,            \* Spec: the response to the latest request
    sent,            \* the e-mails send_email_mock printed in the latest step
    lastWrite,       \* Spec, history: per stored task, what its latest successful
                     \*   create or update asked it to be
    req,             \* SpecConc: slot -> the request in flight there and its session
    committed        \* SpecConc, history: what every committed create or update
                     \*   asked its task to be

db == <<users, users_id_seq, tasks, tasks_id_seq, task_assignees>>
vars == <<users, users_id_seq, tasks, tasks_id_seq, task_assignees,
          resp, sent, lastWrite, req, committed>>

(***************************************************************************)
(* Bounds and input sets                                                   *)
(***************************************************************************)
MaxUsers == 2     \* signups are accepted while users.id has issued at most this many
MaxTaskId == 2    \* creates are accepted while tasks.id has issued at most this many
MaxPage == 3      \* list requests ask for pages 1..MaxPage
MaxSize == 2      \* list requests ask for sizes 1..MaxSize (the code allows 1..100)
NumSlots == 2     \* SpecConc: requests in flight at once

Roles == {"Admin", "Manager", "Developer"}
Statuses == {"TODO", "In progress", "Done"}
ADMIN == "Admin"
Usernames == {"ann", "bob"}
NoSub == "<none>"     \* a token payload without "sub"

\* UserCreate bodies sent to /auth/signup
SignupBodies ==
    { [username |-> "ann", password |-> "p1", role |-> "Admin"],
      [username |-> "ann", password |-> "p2", role |-> "Developer"],
      [username |-> "bob", password |-> "p1", role |-> "Manager"] }

\* TaskCreate bodies sent to POST /tasks/ and PUT /tasks/{id}.  User id
\* MaxUsers + 1 is never issued, so it never resolves.
NoUserId == MaxUsers + 1
TaskBodies ==
    { [title |-> "a", responsible_person_id |-> 1, assignees |-> <<>>,
       status |-> "TODO", priority |-> 1],
      [title |-> "b", responsible_person_id |-> 2, assignees |-> <<1, 2>>,
       status |-> "Done", priority |-> 2],
      [title |-> "a", responsible_person_id |-> 1, assignees |-> <<2, 2>>,
       status |-> "Done", priority |-> 1],
      [title |-> "b", responsible_person_id |-> NoUserId, assignees |-> <<1>>,
       status |-> "In progress", priority |-> 2],
      [title |-> "a", responsible_person_id |-> 1, assignees |-> <<1, NoUserId>>,
       status |-> "In progress", priority |-> 2] }

\* Bearer tokens: no Authorization header, a token jwt.decode rejects (bad
\* signature or expired), and tokens it accepts, whose "sub" names a user or not
\* according to the users stored.
NoToken == [present |-> FALSE, valid |-> FALSE, sub |-> NoSub]
BadToken == [present |-> TRUE, valid |-> FALSE, sub |-> "ann"]
Tokens ==
    {NoToken, BadToken}
        \cup {[present |-> TRUE, valid |-> TRUE, sub |-> s] : s \in Usernames}

TaskIds == 1..MaxTaskId
Pages == 1..MaxPage
Sizes == 1..MaxSize

(***************************************************************************)
(* Helpers                                                                 *)
(***************************************************************************)
Range(s) == {s[i] : i \in DOMAIN s}
Min(a, b) == IF a < b THEN a ELSE b
InsertAt(s, p, x) == SubSeq(s, 1, p - 1) \o <<x>> \o SubSeq(s, p, Len(s))

\* auth/utils.py (not in src/): the password hash and its verification
get_password_hash(password) == "hash:" \o password
verify_password(password, hashed) == hashed = get_password_hash(password)

(***************************************************************************)
(* Queries.  An Optional row is a set with at most one row.                *)
(***************************************************************************)
\* select(User).filter(User.username == username) ... .first()
get_user(us, username) == {u \in us : u.username = username}

\* select(User).where(User.id == user_id) ... scalar_one_or_none()
get_user_or_404(us, user_id) == {u \in us : u.id = user_id}

\* select(User).where(User.id.in_(assignees_ids)): the users found, and the ids
\* of the request that are not among them
AssigneesFound(us, assignees_ids) == {u \in us : u.id \in Range(assignees_ids)}
\* mutant: the request is refused only when none of its assignees resolves
MissingUnlessSomeFound(us, assignees_ids) ==
    IF AssigneesFound(us, assignees_ids) = {} THEN Range(assignees_ids) ELSE {}
MissingAssignees(us, assignees_ids) ==
    Range(assignees_ids) \ {u.id : u \in AssigneesFound(us, assignees_ids)}

\* select(Task).where(Task.id == task_id): the task row
SelectTask(ts, task_id) == {ts[i] : i \in {j \in DOMAIN ts : ts[j].id = task_id}}

\* selectinload(Task.assignees): the second SELECT, the ids of the task's assignees
SelectAssignees(ta, task_id) == {a.user_id : a \in {x \in ta : x.task_id = task_id}}

\* mutant: the offset counts the requested page too
SelectPageOffByOne(ts, page, size) ==
    LET offset == page * size
    IN  SubSeq(ts, offset + 1, Min(offset + size, Len(ts)))
\* select(Task).offset(offset).limit(size): no ORDER BY, the rows in scan order
SelectPage(ts, page, size) ==
    LET offset == (page - 1) * size
    IN  SubSeq(ts, offset + 1, Min(offset + size, Len(ts)))

\* the dict both read handlers, create and update build from a task and its assignees;
\* the assignee list has no specified order and is kept as the set of its ids
TaskResponse(t, assignee_ids) ==
    [id |-> t.id, title |-> t.title, responsible_person_id |-> t.responsible_person_id,
     assignees |-> assignee_ids, status |-> t.status, priority |-> t.priority]

\* what a TaskCreate body asks the task with this id to be
BodyResponse(task_id, body) ==
    [id |-> task_id, title |-> body.title,
     responsible_person_id |-> body.responsible_person_id,
     assignees |-> Range(body.assignees), status |-> body.status,
     priority |-> body.priority]

(***************************************************************************)
(* Constraints and writes                                                  *)
(***************************************************************************)
\* mutant: the column carries no unique constraint
UsernameUnchecked(us, username) == TRUE
\* users.username is declared unique=True: an INSERT of a taken username fails
UsernameUnique(us, username) == \A u \in us : u.username # username

\* A new row version (INSERT, or the new version an UPDATE writes) lands where
\* the heap has room: its place in an unordered scan is unspecified.
Placements(ts, row) == {InsertAt(ts, p, row) : p \in 1..(Len(ts) + 1)}

WithoutTask(ts, task_id) == SelectSeq(ts, LAMBDA t : t.id # task_id)

NewTaskRow(task_id, body) ==
    [id |-> task_id, title |-> body.title,
     responsible_person_id |-> body.responsible_person_id,
     status |-> body.status, priority |-> body.priority]

AssigneeRows(task_id, user_ids) == {[task_id |-> task_id, user_id |-> u] : u \in user_ids}

\* mutant: any authenticated user passes the role check
RoleAllowedAny(user, required_role) == user.role \in Roles
\* role_checker: the role of the user row, compared with the required role
RoleAllowed(user, required_role) == user.role = required_role

\* mutant: the payload is read without verifying signature and expiry
get_current_user_unverified(us, token) ==
    IF ~token.present \/ token.sub = NoSub
    THEN {}
    ELSE {u \in us : u.username = token.sub}
\* get_current_user: the user a token resolves to, or none (401)
get_current_user(us, token) ==
    IF ~token.present \/ ~token.valid \/ token.sub = NoSub
    THEN {}
    ELSE get_user(us, token.sub)

\* the recipient update_task derives for the responsible person
EmailOf(user) == user.username \o "@example.com"

(***************************************************************************)
(* Responses                                                               *)
(***************************************************************************)
Response(op, code, detail) ==
    [op |-> op, code |-> code, detail |-> detail, missing |-> {}, tasks |-> <<>>,
     page |-> 0, size |-> 0, total |-> 0, user |-> <<>>, token |-> <<>>]

Unauthorized(op) == Response(op, 401, "Could not validate credentials")
NoResponse == Response("none", 0, "")

UserResponse(user) == [id |-> user.id, username |-> user.username, role |-> user.role]

\* the e-mail update_task sends: recipient, the stored title in the subject, the
\* new status in the body
Email(user, task, body) == [to |-> EmailOf(user), title |-> task.title, status |-> body.status]

\* mutant: every update notifies
NotificationsAlways(task, body, responsible_person) ==
    <<Email(responsible_person, task, body)>>
\* update_task sends one e-mail when the loaded status differs from the request's
Notifications(task, body, responsible_person) ==
    IF task.status # body.status THEN <<Email(responsible_person, task, body)>> ELSE <<>>

\* The UPDATE the unit of work flushes sets only the columns whose value differs
\* from the loaded one, on the row as it is stored now.
FlushedRow(current, loaded, new) ==
    [id |-> current.id,
     title |-> IF new.title # loaded.title THEN new.title ELSE current.title,
     responsible_person_id |->
        IF new.responsible_person_id # loaded.responsible_person_id
        THEN new.responsible_person_id ELSE current.responsible_person_id,
     status |-> IF new.status # loaded.status THEN new.status ELSE current.status,
     priority |-> IF new.priority # loaded.priority THEN new.priority ELSE current.priority]

\* tasks after the flush of an update: no UPDATE when no column changed
UpdatedTasks(ts, loaded, new) ==
    IF new = loaded \/ SelectTask(ts, loaded.id) = {}
    THEN {ts}
    ELSE LET current == CHOOSE t \in SelectTask(ts, loaded.id) : TRUE
         IN  Placements(WithoutTask(ts, loaded.id), FlushedRow(current, loaded, new))

\* mutant: the new assignees are added to the loaded ones
UpdatedAssigneesMerged(ta, task_id, loaded_ids, new_ids) ==
    ta \cup AssigneeRows(task_id, new_ids \ loaded_ids)
\* task.assignees = assignees: the unit of work deletes the association rows of the
\* loaded assignees that are gone and inserts those of the new ones
UpdatedAssignees(ta, task_id, loaded_ids, new_ids) ==
    (ta \ AssigneeRows(task_id, loaded_ids \ new_ids))
        \cup AssigneeRows(task_id, new_ids \ loaded_ids)

\* session.delete(task): the association rows of the loaded assignees, then the row
DeletedAssignees(ta, task_id, loaded_ids) == ta \ AssigneeRows(task_id, loaded_ids)

(***************************************************************************)
(* The handlers.  Each is the set of outcomes of one request on the stored *)
(* tables: the response, the e-mails printed and the tables it leaves.     *)
(* More than one outcome only where a written row may land in more than    *)
(* one place of the scan order.                                            *)
(***************************************************************************)
Outcome(r, mails, us, useq, ts, tseq, ta) ==
    [resp |-> r, sent |-> mails, users |-> us, users_id_seq |-> useq,
     tasks |-> ts, tasks_id_seq |-> tseq, task_assignees |-> ta]

\* a raised HTTPException: nothing was added to the session, nothing is committed
Raise(r) == Outcome(r, <<>>, users, users_id_seq, tasks, tasks_id_seq, task_assignees)

\* mutant: a signup for a taken username rewrites that user's hash and role
signup_upsert(user) ==
    IF get_user(users, user.username) # {}
    THEN {Outcome([Response("signup", 200, "") EXCEPT !.user = <<UserResponse(u)>>],
                  <<>>,
                  (users \ {u}) \cup
                    {[u EXCEPT !.hashed_password = get_password_hash(user.password),
                               !.role = user.role]},
                  users_id_seq, tasks, tasks_id_seq, task_assignees) :
            u \in get_user(users, user.username)}
    ELSE {Outcome([Response("signup", 200, "") EXCEPT
                        !.user = <<[id |-> users_id_seq, username |-> user.username,
                                    role |-> user.role]>>],
                  <<>>,
                  users \cup {[id |-> users_id_seq, username |-> user.username,
                               hashed_password |-> get_password_hash(user.password),
                               role |-> user.role]},
                  users_id_seq + 1, tasks, tasks_id_seq, task_assignees)}

\* POST /auth/signup
signup(user) ==
    IF get_user(users, user.username) # {}
    THEN {Raise(Response("signup", 400, "Username already registered"))}
    ELSE LET db_user == [id |-> users_id_seq, username |-> user.username,
                         hashed_password |-> get_password_hash(user.password),
                         role |-> user.role]
         IN  IF UsernameUnique(users, user.username)
             THEN {Outcome([Response("signup", 200, "") EXCEPT
                                !.user = <<UserResponse(db_user)>>],
                           <<>>, users \cup {db_user}, users_id_seq + 1,
                           tasks, tasks_id_seq, task_assignees)}
             ELSE {Outcome(Response("signup", 500, "IntegrityError"),
                           <<>>, users, users_id_seq + 1,
                           tasks, tasks_id_seq, task_assignees)}

\* POST /auth/token
login_for_access_token(username, password) ==
    LET ok == {u \in get_user(users, username) :
                    verify_password(password, u.hashed_password)}
    IN  IF ok = {}
        THEN {Raise(Response("login", 401, "Incorrect username or password"))}
        ELSE {Raise([Response("login", 200, "") EXCEPT
                        !.token = <<[sub |-> u.username, role |-> u.role]>>]) : u \in ok}

\* GET /tasks/?page&size
read_tasks(token, page, size) ==
    IF get_current_user(users, token) = {}
    THEN {Raise(Unauthorized("list"))}
    ELSE LET rows == SelectPage(tasks, page, size)
         IN  IF rows = <<>>
             THEN {Raise(Response("list", 404, "No tasks found"))}
             ELSE {Raise([Response("list", 200, "") EXCEPT
                            !.tasks = [i \in DOMAIN rows |->
                                TaskResponse(rows[i],
                                    SelectAssignees(task_assignees, rows[i].id))],
                            !.page = page, !.size = size, !.total = Len(rows)])}

\* GET /tasks/{task_id}
read_task(token, task_id) ==
    IF get_current_user(users, token) = {}
    THEN {Raise(Unauthorized("get"))}
    ELSE IF SelectTask(tasks, task_id) = {}
    THEN {Raise(Response("get", 404, "Task not found"))}
    ELSE {Raise([Response("get", 200, "") EXCEPT
                    !.tasks = <<TaskResponse(task,
                                    SelectAssignees(task_assignees, task_id))>>]) :
            task \in SelectTask(tasks, task_id)}

\* POST /tasks/
create_task(token, body) ==
    IF get_current_user(users, token) = {}
    THEN {Raise(Unauthorized("create"))}
    ELSE IF get_user_or_404(users, body.responsible_person_id) = {}
    THEN {Raise(Response("create", 404, "User not found"))}
    ELSE IF MissingAssignees(users, body.assignees) # {}
    THEN {Raise([Response("create", 404, "Assignees not found") EXCEPT
                    !.missing = MissingAssignees(users, body.assignees)])}
    ELSE LET new_task == NewTaskRow(tasks_id_seq, body)
             ids == {u.id : u \in AssigneesFound(users, body.assignees)}
             rows == task_assignees \cup AssigneeRows(new_task.id, ids)
         IN  {Outcome([Response("create", 201, "") EXCEPT
                            !.tasks = <<TaskResponse(new_task,
                                            SelectAssignees(rows, new_task.id))>>],
                      <<>>, users, users_id_seq, ts, tasks_id_seq + 1, rows) :
                ts \in Placements(tasks, new_task)}

\* PUT /tasks/{task_id}
update_task(token, task_id, body) ==
    IF get_current_user(users, token) = {}
    THEN {Raise(Unauthorized("update"))}
    ELSE IF SelectTask(tasks, task_id) = {}
    THEN {Raise(Response("update", 404, "Task not found"))}
    ELSE IF get_user_or_404(users, body.responsible_person_id) = {}
    THEN {Raise(Response("update", 404, "User not found"))}
    ELSE IF MissingAssignees(users, body.assignees) # {}
    THEN {Raise([Response("update", 404, "Assignees not found") EXCEPT
                    !.missing = MissingAssignees(users, body.assignees)])}
    ELSE LET task == CHOOSE t \in SelectTask(tasks, task_id) : TRUE
             loaded_ids == SelectAssignees(task_assignees, task_id)
             responsible_person ==
                CHOOSE u \in get_user_or_404(users, body.responsible_person_id) : TRUE
             ids == {u.id : u \in AssigneesFound(users, body.assignees)}
             rows == UpdatedAssignees(task_assignees, task_id, loaded_ids, ids)
         IN  {Outcome([Response("update", 200, "") EXCEPT
                            !.tasks = <<TaskResponse(
                                            CHOOSE t \in SelectTask(ts, task_id) : TRUE,
                                            SelectAssignees(rows, task_id))>>],
                      Notifications(task, body, responsible_person),
                      users, users_id_seq, ts, tasks_id_seq, rows) :
                ts \in UpdatedTasks(tasks, task, NewTaskRow(task_id, body))}

\* DELETE /tasks/{task_id}, behind role_required(StatusRole.ADMIN)
delete_task(token, task_id) ==
    IF get_current_user(users, token) = {}
    THEN {Raise(Unauthorized("delete"))}
    ELSE IF \E u \in get_current_user(users, token) : ~RoleAllowed(u, ADMIN)
    THEN {Raise(Response("delete", 403, "Action requires 'Admin' role"))}
    ELSE IF SelectTask(tasks, task_id) = {}
    THEN {Raise(Response("delete", 404, "Task not found"))}
    ELSE {Outcome(Response("delete", 200, "Task deleted successfully"), <<>>,
                  users, users_id_seq, WithoutTask(tasks, task_id), tasks_id_seq,
                  DeletedAssignees(task_assignees, task_id,
                                   SelectAssignees(task_assignees, task_id)))}

(***************************************************************************)
(* Spec: one request at a time, each handler one action                    *)
(***************************************************************************)
\* the request is answered: its outcome becomes the state
Respond(o) ==
    /\ resp' = o.resp
    /\ sent' = o.sent
    /\ users' = o.users
    /\ users_id_seq' = o.users_id_seq
    /\ tasks' = o.tasks
    /\ tasks_id_seq' = o.tasks_id_seq
    /\ task_assignees' = o.task_assignees
    /\ UNCHANGED <<req, committed>>

Signup(user) ==
    /\ users_id_seq <= MaxUsers
    /\ \E o \in signup(user) : Respond(o)
    /\ UNCHANGED lastWrite

Login(username, password) ==
    /\ \E o \in login_for_access_token(username, password) : Respond(o)
    /\ UNCHANGED lastWrite

ReadTasks(token, page, size) ==
    /\ \E o \in read_tasks(token, page, size) : Respond(o)
    /\ UNCHANGED lastWrite

ReadTask(token, task_id) ==
    /\ \E o \in read_task(token, task_id) : Respond(o)
    /\ UNCHANGED lastWrite

CreateTask(token, body) ==
    \E o \in create_task(token, body) :
        /\ o.tasks_id_seq <= MaxTaskId + 1
        /\ Respond(o)
        /\ lastWrite' = IF o.resp.code = 201
                        THEN lastWrite \cup {BodyResponse(tasks_id_seq, body)}
                        ELSE lastWrite

UpdateTask(token, task_id, body) ==
    \E o \in update_task(token, task_id, body) :
        /\ Respond(o)
        /\ lastWrite' = IF o.resp.code = 200
                        THEN {w \in lastWrite : w.id # task_id}
                                \cup {BodyResponse(task_id, body)}
                        ELSE lastWrite

DeleteTask(token, task_id) ==
    \E o \in delete_task(token, task_id) :
        /\ Respond(o)
        /\ lastWrite' = IF o.resp.code = 200
                        THEN {w \in lastWrite : w.id # task_id}
                        ELSE lastWrite

\* A slot of SpecConc: the request in flight, where its handler stands, and what
\* its session has loaded so far.
NoUser == [username |-> "", password |-> "", role |-> ""]
NoBody == [title |-> "", responsible_person_id |-> 0, assignees |-> <<>>,
           status |-> "", priority |-> 0]
NoArgs == [user |-> NoUser, token |-> NoToken, task_id |-> 0, body |-> NoBody,
           page |-> 0, size |-> 0]
NoSession == [rows |-> <<>>, loaded_ids |-> {}, responsible |-> {}, new_ids |-> {}]
Idle == [pc |-> "idle", op |-> "none", args |-> NoArgs, session |-> NoSession,
         resp |-> NoResponse]

Init ==
    /\ users = {}
    /\ users_id_seq = 1
    /\ tasks = <<>>
    /\ tasks_id_seq = 1
    /\ task_assignees = {}
    /\ resp = NoResponse
    /\ sent = <<>>
    /\ lastWrite = {}
    /\ req = [r \in 1..NumSlots |-> Idle]
    /\ committed = {}

Next ==
    \/ \E user \in SignupBodies : Signup(user)
    \/ \E user \in SignupBodies : Login(user.username, user.password)
    \/ \E token \in Tokens, page \in Pages, size \in Sizes : ReadTasks(token, page, size)
    \/ \E token \in Tokens, task_id \in TaskIds : ReadTask(token, task_id)
    \/ \E token \in Tokens, body \in TaskBodies : CreateTask(token, body)
    \/ \E token \in Tokens, task_id \in TaskIds, body \in TaskBodies :
            UpdateTask(token, task_id, body)
    \/ \E token \in Tokens, task_id \in TaskIds : DeleteTask(token, task_id)

Spec == Init /\ [][Next]_vars

(***************************************************************************)
(* SpecConc: concurrent requests.  Every request runs in its own session   *)
(* (get_db) on PostgreSQL's default isolation, READ COMMITTED: each        *)
(* statement reads what is committed when it runs, and the rows a session  *)
(* flushes become visible together at its commit.  One action per          *)
(* statement; a slot holds one request from its arrival to its response.   *)
(***************************************************************************)
ConcMaxTaskId == 1    \* SpecConc: creates are accepted while tasks.id has issued this many
Slots == 1..NumSlots

ConcSignupBodies ==
    { [username |-> "ann", password |-> "p1", role |-> "Admin"],
      [username |-> "ann", password |-> "p2", role |-> "Developer"] }
ConcTaskBodies ==
    { [title |-> "a", responsible_person_id |-> 1, assignees |-> <<>>,
       status |-> "TODO", priority |-> 1],
      [title |-> "b", responsible_person_id |-> 1, assignees |-> <<1>>,
       status |-> "Done", priority |-> 2] }
ConcTokens == {NoToken, [present |-> TRUE, valid |-> TRUE, sub |-> "ann"]}
ConcTaskIds == 1..ConcMaxTaskId

InFlight(op) == {r \in Slots : req[r].op = op /\ req[r].pc \notin {"idle", "done"}}

\* the slot moves on: the request's next statement, with what the session holds
Goto(r, pc, session) ==
    req' = [req EXCEPT ![r].pc = pc, ![r].session = session]
\* the request is answered
Done(r, response) ==
    req' = [req EXCEPT ![r].pc = "done", ![r].resp = response]
Accept(r, op, args, pc) ==
    req' = [req EXCEPT ![r] = [pc |-> pc, op |-> op, args |-> args,
                               session |-> NoSession, resp |-> NoResponse]]
Refuse(r, op, args, response) ==
    req' = [req EXCEPT ![r] = [pc |-> "done", op |-> op, args |-> args,
                               session |-> NoSession, resp |-> response]]
ReadOnly == /\ UNCHANGED <<db, committed>>
            /\ sent' = <<>>
            /\ UNCHANGED <<resp, lastWrite>>

\* signup, to its username lookup
StartSignup(r, user) ==
    /\ req[r].pc = "idle"
    /\ users_id_seq + Cardinality(InFlight("signup")) <= MaxUsers
    /\ ReadOnly
    /\ LET args == [NoArgs EXCEPT !.user = user]
       IN  IF get_user(users, user.username) # {}
           THEN Refuse(r, "signup", args,
                       Response("signup", 400, "Username already registered"))
           ELSE Accept(r, "signup", args, "commit")

\* signup: db.add(db_user); commit (the INSERT takes the next id, then meets the
\* unique constraint); refresh re-reads a row no request ever changes
SignupCommit(r) ==
    /\ req[r].pc = "commit"
    /\ req[r].op = "signup"
    /\ sent' = <<>>
    /\ UNCHANGED <<tasks, tasks_id_seq, task_assignees, committed, resp, lastWrite>>
    /\ users_id_seq' = users_id_seq + 1
    /\ LET user == req[r].args.user
           db_user == [id |-> users_id_seq, username |-> user.username,
                       hashed_password |-> get_password_hash(user.password),
                       role |-> user.role]
       IN  IF UsernameUnique(users, user.username)
           THEN /\ users' = users \cup {db_user}
                /\ Done(r, [Response("signup", 200, "") EXCEPT
                                !.user = <<UserResponse(db_user)>>])
           ELSE /\ users' = users
                /\ Done(r, Response("signup", 500, "IntegrityError"))

\* a task request, through get_current_user (and role_checker for delete)
StartTaskRequest(r, op, args, first) ==
    /\ req[r].pc = "idle"
    /\ ReadOnly
    /\ LET current_user == get_current_user(users, args.token)
       IN  IF current_user = {}
           THEN Refuse(r, op, args, Unauthorized(op))
           ELSE IF op = "delete" /\ \E u \in current_user : ~RoleAllowed(u, ADMIN)
           THEN Refuse(r, op, args,
                       Response("delete", 403, "Action requires 'Admin' role"))
           ELSE Accept(r, op, args, first)

StartList(r, token, page, size) ==
    StartTaskRequest(r, "list",
        [NoArgs EXCEPT !.token = token, !.page = page, !.size = size], "select_page")
StartGet(r, token, task_id) ==
    StartTaskRequest(r, "get",
        [NoArgs EXCEPT !.token = token, !.task_id = task_id], "select_task")
StartCreate(r, token, body) ==
    /\ tasks_id_seq + Cardinality(InFlight("create")) <= ConcMaxTaskId
    /\ StartTaskRequest(r, "create",
            [NoArgs EXCEPT !.token = token, !.body = body], "get_user")
StartUpdate(r, token, task_id, body) ==
    StartTaskRequest(r, "update",
        [NoArgs EXCEPT !.token = token, !.task_id = task_id, !.body = body],
        "select_task")
StartDelete(r, token, task_id) ==
    StartTaskRequest(r, "delete",
        [NoArgs EXCEPT !.token = token, !.task_id = task_id], "select_task")

\* get_task_or_404, first SELECT: the task row
SelectTaskRow(r) ==
    /\ req[r].pc = "select_task"
    /\ ReadOnly
    /\ LET found == SelectTask(tasks, req[r].args.task_id)
       IN  IF found = {}
           THEN Done(r, Response(req[r].op, 404, "Task not found"))
           ELSE \E task \in found :
                    Goto(r, "select_assignees", [req[r].session EXCEPT !.rows = <<task>>])

\* read_tasks, first SELECT: the rows of the page
SelectPageRows(r) ==
    /\ req[r].pc = "select_page"
    /\ ReadOnly
    /\ LET rows == SelectPage(tasks, req[r].args.page, req[r].args.size)
       IN  IF rows = <<>>
           THEN Done(r, Response("list", 404, "No tasks found"))
           ELSE Goto(r, "select_assignees", [req[r].session EXCEPT !.rows = rows])

\* selectinload(Task.assignees), the second SELECT, for the rows the first one
\* returned; get and list answer with what the two SELECTs read
LoadAssignees(r) ==
    /\ req[r].pc = "select_assignees"
    /\ ReadOnly
    /\ LET rows == req[r].session.rows
       IN  IF req[r].op \in {"get", "list"}
           THEN Done(r, [Response(req[r].op, 200, "") EXCEPT
                            !.tasks = [i \in DOMAIN rows |->
                                TaskResponse(rows[i],
                                    SelectAssignees(task_assignees, rows[i].id))],
                            !.page = req[r].args.page, !.size = req[r].args.size,
                            !.total = IF req[r].op = "list" THEN Len(rows) ELSE 0])
           ELSE Goto(r, IF req[r].op = "update" THEN "get_user" ELSE "commit",
                     [req[r].session EXCEPT
                        !.loaded_ids = SelectAssignees(task_assignees, rows[1].id)])

\* get_user_or_404(responsible_person_id)
LoadResponsible(r) ==
    /\ req[r].pc = "get_user"
    /\ ReadOnly
    /\ LET found == get_user_or_404(users, req[r].args.body.responsible_person_id)
       IN  IF found = {}
           THEN Done(r, Response(req[r].op, 404, "User not found"))
           ELSE Goto(r, "verify", [req[r].session EXCEPT !.responsible = found])

\* verify_assignees_exist(assignees)
VerifyAssignees(r) ==
    /\ req[r].pc = "verify"
    /\ ReadOnly
    /\ LET missing == MissingAssignees(users, req[r].args.body.assignees)
       IN  IF missing # {}
           THEN Done(r, [Response(req[r].op, 404, "Assignees not found") EXCEPT
                            !.missing = missing])
           ELSE Goto(r, "commit", [req[r].session EXCEPT
                    !.new_ids = {u.id : u \in AssigneesFound(users,
                                                req[r].args.body.assignees)}])

\* create_task: session.add(new_task); commit
CreateCommit(r) ==
    /\ req[r].pc = "commit"
    /\ req[r].op = "create"
    /\ sent' = <<>>
    /\ UNCHANGED <<users, users_id_seq, resp, lastWrite>>
    /\ LET new_task == NewTaskRow(tasks_id_seq, req[r].args.body)
       IN  /\ tasks' \in Placements(tasks, new_task)
           /\ tasks_id_seq' = tasks_id_seq + 1
           /\ task_assignees' = task_assignees
                    \cup AssigneeRows(new_task.id, req[r].session.new_ids)
           /\ committed' = committed \cup {BodyResponse(new_task.id, req[r].args.body)}
           /\ Goto(r, "refresh", [req[r].session EXCEPT !.rows = <<new_task>>])

\* What the flush of an update meets when other sessions committed since the load:
\* an UPDATE that matches no row (StaleDataError), an INSERT of an association row
\* that is there already or whose task is gone (IntegrityError).
UpdateFlushFails(ts, ta, loaded, loaded_ids, new, new_ids) ==
    \/ new # loaded /\ SelectTask(ts, loaded.id) = {}
    \/ AssigneeRows(loaded.id, new_ids \ loaded_ids) \cap ta # {}
    \/ new_ids \ loaded_ids # {} /\ SelectTask(ts, loaded.id) = {}
\* a DELETE of association rows that matches fewer rows than the session loaded:
\* raised as StaleDataError or let pass, as the driver's row count has it
StaleAssigneeDelete(ta, task_id, gone_ids) ==
    ~(AssigneeRows(task_id, gone_ids) \subseteq ta)

\* update_task: the e-mail, the assignments, session.add(task); commit
UpdateCommit(r) ==
    /\ req[r].pc = "commit"
    /\ req[r].op = "update"
    /\ UNCHANGED <<users, users_id_seq, tasks_id_seq, resp, lastWrite>>
    /\ LET task == req[r].session.rows[1]
           body == req[r].args.body
           loaded_ids == req[r].session.loaded_ids
           new_ids == req[r].session.new_ids
           new == NewTaskRow(task.id, body)
       IN  /\ sent' = Notifications(task, body,
                        CHOOSE u \in req[r].session.responsible : TRUE)
           /\ \E raised \in BOOLEAN :
                IF \/ UpdateFlushFails(tasks, task_assignees, task, loaded_ids,
                                       new, new_ids)
                   \/ raised /\ StaleAssigneeDelete(task_assignees, task.id,
                                                    loaded_ids \ new_ids)
                THEN /\ UNCHANGED <<tasks, task_assignees, committed>>
                     /\ Done(r, Response("update", 500, "flush failed"))
                ELSE /\ tasks' \in UpdatedTasks(tasks, task, new)
                     /\ task_assignees' =
                            UpdatedAssignees(task_assignees, task.id, loaded_ids, new_ids)
                     /\ committed' = committed \cup {BodyResponse(task.id, body)}
                     /\ Goto(r, "refresh", req[r].session)

\* session.refresh(task) and the response of create and update
Refresh(r) ==
    /\ req[r].pc = "refresh"
    /\ ReadOnly
    /\ LET task_id == req[r].session.rows[1].id
           found == SelectTask(tasks, task_id)
       IN  IF found = {}
           THEN Done(r, Response(req[r].op, 500, "refresh failed"))
           ELSE \E task \in found :
                    Done(r, [Response(req[r].op,
                                      IF req[r].op = "create" THEN 201 ELSE 200, "")
                                EXCEPT !.tasks = <<TaskResponse(task,
                                            SelectAssignees(task_assignees, task_id))>>])

\* delete_task: session.delete(task); commit.  The task row cannot go while an
\* association row the session did not load still points at it (IntegrityError).
DeleteCommit(r) ==
    /\ req[r].pc = "commit"
    /\ req[r].op = "delete"
    /\ sent' = <<>>
    /\ UNCHANGED <<users, users_id_seq, tasks_id_seq, committed, resp, lastWrite>>
    /\ LET task == req[r].session.rows[1]
           loaded_ids == req[r].session.loaded_ids
           rest == DeletedAssignees(task_assignees, task.id, loaded_ids)
       IN  \E raised \in BOOLEAN :
                IF \/ SelectAssignees(rest, task.id) # {}
                   \/ raised /\ ( \/ StaleAssigneeDelete(task_assignees, task.id, loaded_ids)
                                  \/ SelectTask(tasks, task.id) = {} )
                THEN /\ UNCHANGED <<tasks, task_assignees>>
                     /\ Done(r, Response("delete", 500, "flush failed"))
                ELSE /\ tasks' = WithoutTask(tasks, task.id)
                     /\ task_assignees' = rest
                     /\ Done(r, Response("delete", 200, "Task deleted successfully"))

\* the response is sent and the session closed
Close(r) ==
    /\ req[r].pc = "done"
    /\ ReadOnly
    /\ req' = [req EXCEPT ![r] = Idle]

NextConc ==
    \E r \in Slots :
        \/ \E user \in ConcSignupBodies : StartSignup(r, user)
        \/ SignupCommit(r)
        \/ \E token \in ConcTokens : StartList(r, token, 1, MaxSize)
        \/ \E token \in ConcTokens, task_id \in ConcTaskIds : StartGet(r, token, task_id)
        \/ \E token \in ConcTokens, body \in ConcTaskBodies : StartCreate(r, token, body)
        \/ \E token \in ConcTokens, task_id \in ConcTaskIds, body \in ConcTaskBodies :
                StartUpdate(r, token, task_id, body)
        \/ \E token \in ConcTokens, task_id \in ConcTaskIds : StartDelete(r, token, task_id)
        \/ SelectTaskRow(r)
        \/ SelectPageRows(r)
        \/ LoadAssignees(r)
        \/ LoadResponsible(r)
        \/ VerifyAssignees(r)
        \/ CreateCommit(r)
        \/ UpdateCommit(r)
        \/ Refresh(r)
        \/ DeleteCommit(r)
        \/ Close(r)

SpecConc == Init /\ [][NextConc]_vars

\* SpecSignup: concurrent signups alone, the only requests that write users
NextSignup ==
    \E r \in Slots :
        \/ \E user \in SignupBodies : StartSignup(r, user)
        \/ SignupCommit(r)
        \/ Close(r)

SpecSignup == Init /\ [][NextSignup]_vars

(***************************************************************************)
(* Properties of Spec.  Each one quantifies over the requests that can be  *)
(* sent in the current state and over every outcome of the handler.        *)
(***************************************************************************)
Authenticated(token) ==
    \E u \in users : token.present /\ token.valid /\ token.sub = u.username
UserExists(user_id) == \E u \in users : u.id = user_id
TaskExists(task_id) == \E i \in DOMAIN tasks : tasks[i].id = task_id
UnresolvedUser(body) ==
    \/ ~UserExists(body.responsible_person_id)
    \/ \E i \in DOMAIN body.assignees : ~UserExists(body.assignees[i])
StoredTask(task_id) == CHOOSE t \in Range(tasks) : t.id = task_id
TablesUntouched(o) ==
    /\ o.users = users
    /\ o.users_id_seq = users_id_seq
    /\ o.tasks = tasks
    /\ o.tasks_id_seq = tasks_id_seq
    /\ o.task_assignees = task_assignees

\* C1: a create or update by an authenticated user whose responsible_person_id or
\* any one assignee id does not resolve to a user ends in 404, leaves tasks and
\* association rows exactly as they were, and sends no e-mail.
Rejected404(o) ==
    /\ o.resp.code = 404
    /\ TablesUntouched(o)
    /\ o.sent = <<>>
C1_RejectedWholesale ==
    \A token \in Tokens, body \in TaskBodies :
        (Authenticated(token) /\ UnresolvedUser(body)) =>
            /\ \A o \in create_task(token, body) : Rejected404(o)
            /\ \A task_id \in TaskIds :
                    \A o \in update_task(token, task_id, body) : Rejected404(o)

\* C1 witness: an update of a stored task was refused because one id of its
\* assignee list does not resolve while another one does.
C1_Witness ==
    /\ resp.op = "update"
    /\ resp.code = 404
    /\ resp.missing = {NoUserId}
    /\ tasks # <<>>
    /\ users # {}

\* C2: a delete of a stored task by an authenticated user who is not Admin ends in
\* 403 and leaves tasks and association rows as they were; by an Admin it ends in
\* 200, after which the task row and its association rows are gone, every other
\* row and every user is kept, and a get of that id ends in 404.
C2_DeleteAdminOnly ==
    /\ \A token \in Tokens, task_id \in TaskIds :
        (Authenticated(token) /\ TaskExists(task_id)) =>
            \A o \in delete_task(token, task_id) :
                IF \E u \in users : u.username = token.sub /\ u.role # "Admin"
                THEN /\ o.resp.code = 403
                     /\ TablesUntouched(o)
                ELSE /\ o.resp.code = 200
                     /\ Range(o.tasks) = Range(tasks) \ {StoredTask(task_id)}
                     /\ \A i \in DOMAIN o.tasks : o.tasks[i].id # task_id
                     /\ o.task_assignees = {a \in task_assignees : a.task_id # task_id}
                     /\ o.users = users
    /\ \A token \in Tokens, task_id \in TaskIds :
        (Authenticated(token) /\ ~TaskExists(task_id)) =>
            \A o \in read_task(token, task_id) : o.resp.code = 404

\* C2 witness: an Admin deleted a task while another task, with assignees, is kept.
C2_Witness ==
    /\ resp.op = "delete"
    /\ resp.code = 200
    /\ tasks # <<>>
    /\ task_assignees # {}

\* C3: a successful update sends exactly one e-mail, to username@example.com of the
\* user the request names as responsible, when the request's status differs from
\* the stored one, and none when it is equal; no other request sends an e-mail.
C3_NotifyOnStatusChange ==
    /\ \A token \in Tokens, task_id \in TaskIds, body \in TaskBodies :
            \A o \in update_task(token, task_id, body) :
                o.resp.code = 200 =>
                    IF StoredTask(task_id).status # body.status
                    THEN /\ Len(o.sent) = 1
                         /\ \E u \in users :
                                /\ u.id = body.responsible_person_id
                                /\ o.sent[1].to = u.username \o "@example.com"
                    ELSE o.sent = <<>>
    /\ \A token \in Tokens :
        /\ \A task_id \in TaskIds :
                /\ \A o \in read_task(token, task_id) : o.sent = <<>>
                /\ \A o \in delete_task(token, task_id) : o.sent = <<>>
        /\ \A body \in TaskBodies :
                \A o \in create_task(token, body) : o.sent = <<>>
        /\ \A page \in Pages, size \in Sizes :
                \A o \in read_tasks(token, page, size) : o.sent = <<>>

\* C3 witness: an update changed the status and one e-mail went out.
C3_Witness ==
    /\ resp.op = "update"
    /\ resp.code = 200
    /\ Len(sent) = 1

\* C4: with N stored tasks, list page p of size s returns min(s, N - (p-1)*s) tasks
\* when N > (p-1)*s and ends in 404, with no task list, when N <= (p-1)*s.
C4_PageBoundary ==
    \A token \in Tokens, page \in Pages, size \in Sizes :
        Authenticated(token) =>
            \A o \in read_tasks(token, page, size) :
                LET N == Len(tasks)
                IN  IF N > (page - 1) * size
                    THEN /\ o.resp.code = 200
                         /\ Len(o.resp.tasks) = Min(size, N - (page - 1) * size)
                    ELSE /\ o.resp.code = 404
                         /\ o.resp.tasks = <<>>

\* C4 witness: a second page holding the one task left after a full first page.
C4_Witness ==
    /\ resp.op = "list"
    /\ resp.code = 200
    /\ resp.page = 2
    /\ resp.size = 1
    /\ Len(resp.tasks) = 1
    /\ Len(tasks) = 2

\* C6: a signup whose username belongs to a stored user ends in 400 and leaves the
\* users table (every stored hash and role) as it was.
C6_SignupConflict ==
    \A user \in SignupBodies :
        (\E u \in users : u.username = user.username) =>
            \A o \in signup(user) :
                /\ o.resp.code = 400
                /\ o.users = users

\* C6 witness: a signup was refused with 400.
C6_Witness ==
    /\ resp.op = "signup"
    /\ resp.code = 400
    /\ users # {}

\* C7: a successful get returns the title, responsible person, status, priority and
\* assignee set of the latest successful create or update of that task.
C7_ReadAfterWrite ==
    \A token \in Tokens, task_id \in TaskIds :
        \A o \in read_task(token, task_id) :
            o.resp.code = 200 =>
                /\ Len(o.resp.tasks) = 1
                /\ o.resp.tasks[1].id = task_id
                /\ o.resp.tasks[1] \in lastWrite

\* C7 witness: a get returned the task written from the assignee list <<2, 2>>.
C7_Witness ==
    /\ resp.op = "get"
    /\ resp.code = 200
    /\ resp.tasks[1].assignees = {2}
    /\ resp.tasks[1].title = "a"

\* C8: every task operation whose token is missing, rejected, without subject or
\* names no stored user ends in 401, changes no table and sends no e-mail; for
\* delete whatever the role in question and whether or not the task is stored.
Rejected401(o) ==
    /\ o.resp.code = 401
    /\ TablesUntouched(o)
    /\ o.sent = <<>>
C8_Unauthorized ==
    \A token \in Tokens :
        ~Authenticated(token) =>
            /\ \A page \in Pages, size \in Sizes :
                    \A o \in read_tasks(token, page, size) : Rejected401(o)
            /\ \A body \in TaskBodies :
                    \A o \in create_task(token, body) : Rejected401(o)
            /\ \A task_id \in TaskIds :
                    /\ \A o \in read_task(token, task_id) : Rejected401(o)
                    /\ \A o \in delete_task(token, task_id) : Rejected401(o)
                    /\ \A body \in TaskBodies :
                            \A o \in update_task(token, task_id, body) : Rejected401(o)

\* C8 witness: a delete of a stored task was refused with 401.
C8_Witness ==
    /\ resp.op = "delete"
    /\ resp.code = 401
    /\ tasks # <<>>

\* C5: a successful list of page p, size s returns the tasks at positions
\* (p-1)*s+1 .. p*s of the stored tasks sorted by ascending id.
SortedIds ==
    LET ids == {tasks[i].id : i \in DOMAIN tasks}
    IN  [k \in 1..Cardinality(ids) |->
            CHOOSE x \in ids : Cardinality({y \in ids : y < x}) = k - 1]
C5_ListAscending ==
    \A token \in Tokens, page \in Pages, size \in Sizes :
        \A o \in read_tasks(token, page, size) :
            o.resp.code = 200 =>
                \A i \in DOMAIN o.resp.tasks :
                    /\ (page - 1) * size + i \in DOMAIN SortedIds
                    /\ o.resp.tasks[i].id = SortedIds[(page - 1) * size + i]

(***************************************************************************)
(* Properties of the concurrent specifications                             *)
(***************************************************************************)
Answered(r, op, code) ==
    /\ req[r].pc = "done"
    /\ req[r].op = op
    /\ req[r].resp.code = code

\* C9: every task a get or a list returns carries the title, responsible person,
\* status, priority and assignee set of one single committed create or update of
\* that task.
C9_AtomicObservation ==
    \A r \in Slots :
        (Answered(r, "get", 200) \/ Answered(r, "list", 200)) =>
            \A i \in DOMAIN req[r].resp.tasks : req[r].resp.tasks[i] \in committed

\* C10: no two stored users share a username; a signup that ends in 200 has stored
\* the user it returns; a signup that passed its lookup and failed at its commit
\* leaves a user of that name stored; and of the signups for one username that are
\* answered together, at most one ended in 200.
C10_UniqueUsernames ==
    /\ \A u \in users, v \in users : u.username = v.username => u = v
    /\ \A r \in Slots :
            Answered(r, "signup", 500) =>
                \E u \in users : u.username = req[r].args.user.username
    /\ \A r \in Slots :
            Answered(r, "signup", 200) =>
                \E u \in users :
                    /\ u.username = req[r].args.user.username
                    /\ <<UserResponse(u)>> = req[r].resp.user
    /\ \A r1 \in Slots, r2 \in Slots :
            (r1 # r2 /\ Answered(r1, "signup", 200) /\ Answered(r2, "signup", 200)) =>
                req[r1].args.user.username # req[r2].args.user.username

\* C10 witness: two signups for one username both passed the lookup before either
\* committed; one ended in 200, the other failed at its commit.
C10_Witness ==
    \E r1 \in Slots, r2 \in Slots :
        /\ Answered(r1, "signup", 200)
        /\ Answered(r2, "signup", 500)
        /\ req[r1].args.user.username = req[r2].args.user.username
        /\ Cardinality(users) = 1

====
